---------------------------- MODULE Spec2Model ----------------------------
(***************************************************************************)
(* PatientConnect API: the patient routes (search a patient's visits, post *)
(* a visit) over the patients collection of the document store.            *)
(*                                                                         *)
(* A string is a TLA+ string; Chars gives its characters, so that lower()  *)
(* and split() are computed as Python computes them.  Each request handler *)
(* is a coroutine: the code between two awaited store calls runs           *)
(* atomically on the event loop, and every store call is one atomic step   *)
(* of the store, so there is one action per store call.                    *)
(***************************************************************************)
EXTENDS Integers, Sequences, FiniteSets, Bags, TLC

(***************************************************************************)
(* Bounds of the model.                                                    *)
(***************************************************************************)
\* posts admitted in all (completed or in flight)
MaxPosts == 3

(***************************************************************************)
(* Text.                                                                   *)
(***************************************************************************)
\* Python's None, for the Optional[str] fields
None == "None"

Space == " "

\* the characters of the strings the requests carry
Chars(s) ==
    CASE s = "Amina Wanjiru" -> << "A","m","i","n","a"," ","W","a","n","j","i","r","u" >> []
    s = "wanjiru  AMINA" -> << "w","a","n","j","i","r","u"," "," ","A","M","I","N","A" >> []
    s = "Amina" -> << "A","m","i","n","a" >> []
    s = "Mary Doe" -> << "M","a","r","y"," ","D","o","e" >> []
    s = "" -> <<  >> []
    s = "null" -> << "n","u","l","l" >> []
    s = "Amina amina" -> << "A","m","i","n","a"," ","a","m","i","n","a" >> []
    s = "facility a" -> << "f","a","c","i","l","i","t","y"," ","a" >> []
    s = "Facility A" -> << "F","a","c","i","l","i","t","y"," ","A" >> []
    s = "FACILITY B" -> << "F","A","C","I","L","I","T","Y"," ","B" >> []
    s = "Facility B" -> << "F","a","c","i","l","i","t","y"," ","B" >> []
    s = "Facility C" -> << "F","a","c","i","l","i","t","y"," ","C" >> []
    s = "Facility D" -> << "F","a","c","i","l","i","t","y"," ","D" >>

UpperCase == << "A", "B", "C", "D", "E", "F", "I", "J", "L", "M", "N", "R",
               "T", "U", "W", "Y" >>
LowerCase == << "a", "b", "c", "d", "e", "f", "i", "j", "l", "m", "n", "r",
               "t", "u", "w", "y" >>

\* lower() leaving every character as it is
LowerUnchanged(cs) == cs

\* str.lower() on one character
LowerChar(c) ==
    IF \E i \in 1..Len(UpperCase) : UpperCase[i] = c
    THEN LowerCase[CHOOSE i \in 1..Len(UpperCase) : UpperCase[i] = c]
    ELSE c

\* str.lower()
Lower(cs) == [i \in 1..Len(cs) |-> LowerChar(cs[i])]

RECURSIVE SplitFrom(_, _, _)
\* str.split(): the maximal runs of non-whitespace characters, in order
SplitFrom(cs, i, cur) ==
    IF i > Len(cs)
    THEN IF cur = << >> THEN << >> ELSE << cur >>
    ELSE IF cs[i] = Space
         THEN IF cur = << >>
              THEN SplitFrom(cs, i + 1, << >>)
              ELSE << cur >> \o SplitFrom(cs, i + 1, << >>)
         ELSE SplitFrom(cs, i + 1, Append(cur, cs[i]))

Split(s) == SplitFrom(Chars(s), 1, << >>)

\* set(name.lower() for name in s.split())
NameParts(s) == { Lower(Split(s)[i]) : i \in 1..Len(Split(s)) }

\* the names the requests carry
Names == { "Amina Wanjiru", "wanjiru  AMINA", "Amina" }

\* NameParts of each name, computed once
Parts == [s \in Names |-> NameParts(s)]

\* name1_parts == name2_parts
SameName(a, b) == Parts[a] = Parts[b]

(***************************************************************************)
(* Inputs.                                                                 *)
(***************************************************************************)
FacilityA == [email |-> "a@example.com", facility_name |-> "Facility A",
              facility_type |-> "Hospital"]
FacilityB == [email |-> "b@example.com", facility_name |-> "Facility B",
              facility_type |-> "Clinic"]

\* the authenticated users get_current_active_user can return
Users == { FacilityA, FacilityB }

IdNumbers == { 111, 222 }

ParentNames == { None, "", "null", "Mary Doe" }

\* the VisitSearch bodies
VisitSearches ==
    [id_number : IdNumbers, name : Names, is_child : BOOLEAN,
     parent_name : ParentNames]

VisitSearch(id_number, name, is_child, parent_name) ==
    [id_number |-> id_number, name |-> name, is_child |-> is_child,
     parent_name |-> parent_name]

\* bodies the validator of VisitSearch refuses
RejectedSearches ==
    { VisitSearch(111, "Amina", TRUE, None),
      VisitSearch(222, "Amina Wanjiru", TRUE, "null") }

\* the patient_search bodies posted to /patients/visit while requests overlap
OverlappingSearches ==
    { VisitSearch(111, "Amina Wanjiru", FALSE, None),
      VisitSearch(111, "Amina Wanjiru", TRUE, "Mary Doe"),
      VisitSearch(111, "wanjiru  AMINA", TRUE, "Mary Doe"),
      VisitSearch(111, "Amina", TRUE, "") } \cup RejectedSearches

\* the patient_search bodies posted to /patients/visit one at a time
SequentialSearches ==
    OverlappingSearches \cup
    { VisitSearch(111, "Amina", FALSE, "Mary Doe"),
      VisitSearch(222, "Amina", FALSE, None),
      VisitSearch(222, "wanjiru  AMINA", TRUE, "Mary Doe") }

\* the patient_search bodies posted while /patients/search is used too
ApiSearches ==
    { VisitSearch(111, "Amina Wanjiru", FALSE, None),
      VisitSearch(111, "Amina Wanjiru", TRUE, "Mary Doe"),
      VisitSearch(111, "Amina", TRUE, ""),
      VisitSearch(111, "Amina", TRUE, None) }

\* the patient_search bodies posted while the clock advances
ClockSearches ==
    { VisitSearch(111, "Amina Wanjiru", FALSE, None),
      VisitSearch(111, "Amina Wanjiru", TRUE, "Mary Doe"),
      VisitSearch(111, "Amina", TRUE, "") }

\* the patient_search bodies posted for two id_numbers while requests overlap
FrameSearches ==
    { VisitSearch(111, "Amina Wanjiru", FALSE, None),
      VisitSearch(111, "Amina Wanjiru", TRUE, "Mary Doe"),
      VisitSearch(111, "Amina", TRUE, "Mary Doe"),
      VisitSearch(222, "Amina", FALSE, None),
      VisitSearch(222, "wanjiru  AMINA", TRUE, "Mary Doe") }

\* the patient_search bodies posted for one parent, a child named in two
\* spellings and a child of another name, while requests overlap
RaceSearches ==
    { VisitSearch(111, "Amina Wanjiru", FALSE, None),
      VisitSearch(111, "Amina Wanjiru", TRUE, "Mary Doe"),
      VisitSearch(111, "wanjiru  AMINA", TRUE, "Mary Doe"),
      VisitSearch(111, "Amina", TRUE, "Mary Doe") }

\* the patient_search bodies posted with visits of different content
LedgerSearches ==
    { VisitSearch(111, "Amina Wanjiru", FALSE, None),
      VisitSearch(111, "Amina Wanjiru", TRUE, "Mary Doe"),
      VisitSearch(111, "Amina", TRUE, "") }

\* the bodies posted to /patients/search
SearchedSearches ==
    { VisitSearch(111, "wanjiru  AMINA", FALSE, "null"),
      VisitSearch(222, "Amina", FALSE, None),
      VisitSearch(111, "wanjiru  AMINA", TRUE, "Mary Doe"),
      VisitSearch(111, "Amina", TRUE, ""),
      VisitSearch(222, "Amina", TRUE, "Mary Doe"),
      VisitSearch(111, "Amina", TRUE, None) }

\* the VisitDetails bodies: the three Optional stamp fields a caller may
\* fill in, and the clinical content
VisitBodies ==
    { [facility_name |-> None, facility_type |-> None, visit_date |-> None,
       visit_clinical_notes |-> "notes"],
      [facility_name |-> "Facility B", facility_type |-> "Forged",
       visit_date |-> "Mon 01 Jan 2001, 12:00AM",
       visit_clinical_notes |-> "notes"] }

\* VisitDetails bodies in which the caller filled in the three stamp fields,
\* differently, around the same clinical content
ForgedBodies ==
    { [facility_name |-> "Facility B", facility_type |-> "Forged",
       visit_date |-> "Mon 01 Jan 2001, 12:00AM",
       visit_clinical_notes |-> "notes"],
      [facility_name |-> "Facility A", facility_type |-> "Clinic",
       visit_date |-> "Tue 16 Jul 2024, 03:52PM",
       visit_clinical_notes |-> "notes"] }

\* VisitDetails bodies of different clinical content
LedgerBodies ==
    { [facility_name |-> None, facility_type |-> None, visit_date |-> None,
       visit_clinical_notes |-> "fever"],
      [facility_name |-> None, facility_type |-> None, visit_date |-> None,
       visit_clinical_notes |-> "cough"] }

\* datetime.now().strftime("%a %d %b %Y, %I:%M%p") at clock reading t:
\* one string per minute
Stamps == << "Tue 16 Jul 2024, 03:51PM", "Tue 16 Jul 2024, 03:52PM" >>

Strftime(t) == Stamps[t + 1]

(***************************************************************************)
(* State.                                                                  *)
(***************************************************************************)
VARIABLES
    \* the documents of the patients collection, in natural (insertion) order
    patients_collection,
    \* the add_visit coroutines in flight: a bag of their locals, each with
    \* the store call it awaits
    requests,
    \* the server's clock, in minutes
    clock,
    \* the response the service sent last
    response,
    \* the add_visit calls that returned 201, in the order they returned
    posted,
    \* the documents of the users collection, in natural (insertion) order
    users_collection

vars == << patients_collection, requests, clock, response, posted,
          users_collection >>

NoSearch == [id_number |-> 0, name |-> None, is_child |-> FALSE,
             parent_name |-> None]

\* status is the HTTP status, visits the 'visits' of a VisitResponse, input
\* the body a 422 names as refused
NoResponse == [op |-> "none", status |-> 0, visits |-> << >>,
               input |-> NoSearch]

(***************************************************************************)
(* The models of patient_models.py.                                        *)
(***************************************************************************)
\* the validator with the test for None left out
ParentNameRejectedNullText(patient) ==
    patient.is_child /\ patient.parent_name = "null"

\* VisitSearch.get_parent_name: TRUE when the validator raises ValueError
ParentNameRejected(patient) ==
    patient.is_child /\ (patient.parent_name = None \/ patient.parent_name = "null")

\* Child(name=..., visits=[...]).model_dump()
Child(name, visits) == [name |-> name, visits |-> visits]

\* Patient(id_number=..., name=..., dependents=..., visits=...).model_dump()
Patient(id_number, name, dependents, visits) ==
    [id_number |-> id_number, name |-> name, dependents |-> dependents,
     visits |-> visits]

(***************************************************************************)
(* The document store: find_one, insert_one, update_one with $push.        *)
(***************************************************************************)
\* a filter that every document matches
MatchingAnyDocument(coll, id_number) == 1..Len(coll)

\* the positions of the documents matching {'id_number': id_number}
MatchingIdNumber(coll, id_number) ==
    { i \in 1..Len(coll) : coll[i].id_number = id_number }

\* the positions of the documents matching
\* {'id_number': id_number, 'dependents.name': name}
MatchingDependent(coll, id_number, name) ==
    { i \in MatchingIdNumber(coll, id_number) :
        \E j \in 1..Len(coll[i].dependents) : coll[i].dependents[j].name = name }

Min(S) == CHOOSE x \in S : \A y \in S : x <= y

\* find_one with a filter on a field no document has
FindOneNoField(coll, id_number) == 0

\* find_one(filter={'id_number': id_number}): the position of the first
\* matching document, 0 for None
FindOne(coll, id_number) ==
    IF MatchingIdNumber(coll, id_number) = {} THEN 0
    ELSE Min(MatchingIdNumber(coll, id_number))

\* insert_one under a unique index on id_number
InsertOneUnique(coll, document) ==
    IF \E i \in 1..Len(coll) : coll[i].id_number = document.id_number
    THEN coll
    ELSE Append(coll, document)

\* insert_one(document)
InsertOne(coll, document) == Append(coll, document)

\* update_one pushing the visit at position 0
PushVisitFirst(coll, id_number, visit) ==
    IF \A i \in 1..Len(coll) : coll[i].id_number # id_number THEN coll
    ELSE LET i == CHOOSE m \in 1..Len(coll) :
                      /\ coll[m].id_number = id_number
                      /\ \A n \in 1..(m - 1) : coll[n].id_number # id_number
         IN  [coll EXCEPT ![i].visits = << visit >> \o @]

\* update_one pushing the visit twice
PushVisitTwice(coll, id_number, visit) ==
    IF \A i \in 1..Len(coll) : coll[i].id_number # id_number THEN coll
    ELSE LET i == CHOOSE m \in 1..Len(coll) :
                      /\ coll[m].id_number = id_number
                      /\ \A n \in 1..(m - 1) : coll[n].id_number # id_number
         IN  [coll EXCEPT ![i].visits = @ \o << visit, visit >>]

\* update_one({'id_number': id_number}, {'$push': {'visits': visit}})
PushVisit(coll, id_number, visit) ==
    LET i == FindOne(coll, id_number) IN
    IF i = 0 THEN coll
    ELSE [coll EXCEPT ![i].visits = Append(@, visit)]

\* update_one pushing the child only when no dependent has its name parts
PushDependentUnique(coll, id_number, child) ==
    IF \A i \in 1..Len(coll) : coll[i].id_number # id_number THEN coll
    ELSE LET i == CHOOSE m \in 1..Len(coll) :
                      /\ coll[m].id_number = id_number
                      /\ \A n \in 1..(m - 1) : coll[n].id_number # id_number
         IN  IF \E j \in 1..Len(coll[i].dependents) :
                    Parts[coll[i].dependents[j].name] = Parts[child.name]
             THEN coll
             ELSE [coll EXCEPT ![i].dependents = Append(@, child)]

\* update_one pushing the child in front of the dependents
PushDependentFront(coll, id_number, child) ==
    IF \A i \in 1..Len(coll) : coll[i].id_number # id_number THEN coll
    ELSE LET i == CHOOSE m \in 1..Len(coll) :
                      /\ coll[m].id_number = id_number
                      /\ \A n \in 1..(m - 1) : coll[n].id_number # id_number
         IN  [coll EXCEPT ![i].dependents = << child >> \o @]

\* update_one({'id_number': id_number}, {'$push': {'dependents': child}})
PushDependent(coll, id_number, child) ==
    LET i == FindOne(coll, id_number) IN
    IF i = 0 THEN coll
    ELSE [coll EXCEPT ![i].dependents = Append(@, child)]

\* update_one with $set in place of $push
SetDependentVisits(coll, id_number, name, visit) ==
    [i \in 1..Len(coll) |->
        IF coll[i].id_number = id_number
        THEN [coll[i] EXCEPT !.dependents =
                 [j \in 1..Len(coll[i].dependents) |->
                     IF coll[i].dependents[j].name = name
                     THEN [coll[i].dependents[j] EXCEPT !.visits = << visit >>]
                     ELSE coll[i].dependents[j]]]
        ELSE coll[i]]

\* update_one with the positional operator taking the last dependent that
\* matches
PushDependentVisitLast(coll, id_number, name, visit) ==
    IF \A i \in 1..Len(coll) :
          \/ coll[i].id_number # id_number
          \/ \A j \in 1..Len(coll[i].dependents) : coll[i].dependents[j].name # name
    THEN coll
    ELSE LET i == CHOOSE m \in 1..Len(coll) :
                      /\ coll[m].id_number = id_number
                      /\ \E j \in 1..Len(coll[m].dependents) :
                            coll[m].dependents[j].name = name
                      /\ \A n \in 1..(m - 1) :
                            \/ coll[n].id_number # id_number
                            \/ \A j \in 1..Len(coll[n].dependents) :
                                  coll[n].dependents[j].name # name
             j == CHOOSE m \in 1..Len(coll[i].dependents) :
                      /\ coll[i].dependents[m].name = name
                      /\ \A n \in (m + 1)..Len(coll[i].dependents) :
                            coll[i].dependents[n].name # name
         IN  [coll EXCEPT ![i].dependents[j].visits = Append(@, visit)]

\* update_one({'id_number': id_number, 'dependents.name': name},
\*            {'$push': {'dependents.$.visits': visit}}): the first matching
\* document, and in it the first dependent that matches
PushDependentVisit(coll, id_number, name, visit) ==
    IF MatchingDependent(coll, id_number, name) = {} THEN coll
    ELSE LET i == Min(MatchingDependent(coll, id_number, name))
             j == Min({ k \in 1..Len(coll[i].dependents) :
                          coll[i].dependents[k].name = name })
         IN  [coll EXCEPT ![i].dependents[j].visits = Append(@, visit)]

(***************************************************************************)
(* get_patient: POST /patients/search.                                     *)
(***************************************************************************)
\* the loop comparing the facility of the visit with the user's email
OtherFacilityVisitsByEmail(visits, current_user) ==
    SelectSeq(visits, LAMBDA v : v.facility_name # current_user.email)

RECURSIVE OtherFacilityVisits(_, _)
\* the loop that keeps visit['facility_name'] != current_user.facility_name
OtherFacilityVisits(visits, current_user) ==
    IF visits = << >> THEN << >>
    ELSE LET rest == OtherFacilityVisits(Tail(visits), current_user) IN
         IF Head(visits).facility_name # current_user.facility_name
         THEN << Head(visits) >> \o rest
         ELSE rest

\* the scan leaving the last dependent selected when none matches
LastScanned(dependents, name) ==
    IF \E j \in 1..Len(dependents) : Parts[dependents[j].name] = Parts[name]
    THEN CHOOSE j \in 1..Len(dependents) :
             /\ Parts[dependents[j].name] = Parts[name]
             /\ \A m \in 1..(j - 1) : Parts[dependents[m].name] # Parts[name]
    ELSE Len(dependents)

\* the position of the first dependent whose name has the parts of name,
\* 0 when the loop over the dependents ends without one
FirstSameName(dependents, name) ==
    IF \E j \in 1..Len(dependents) : SameName(dependents[j].name, name)
    THEN Min({ j \in 1..Len(dependents) : SameName(dependents[j].name, name) })
    ELSE 0

\* the body of get_patient (lines 85-112): what it returns in 'visits'
GetPatientVisits(coll, current_user, patient) ==
    LET i == FindOne(coll, patient.id_number) IN
    IF patient.is_child
    THEN IF i = 0 THEN << >>
         ELSE LET j == FirstSameName(coll[i].dependents, patient.name) IN
              IF j = 0 THEN << >>
              ELSE OtherFacilityVisits(coll[i].dependents[j].visits, current_user)
    ELSE IF i = 0 THEN << >>
         ELSE OtherFacilityVisits(coll[i].visits, current_user)

\* the status get_patient answers with: every path of lines 85-112 returns
GetPatientStatus(coll, current_user, patient) == 200

\* get_patient creating the patient it does not find
GetPatientStoreCreating(coll, current_user, patient) ==
    IF \E i \in 1..Len(coll) : coll[i].id_number = patient.id_number
    THEN coll
    ELSE Append(coll, [id_number |-> patient.id_number, name |-> patient.name,
                       dependents |-> << >>, visits |-> << >>])

\* the collection after get_patient: find_one is its only store call
GetPatientStore(coll, current_user, patient) == coll

Init ==
    /\ patients_collection = << >>
    /\ requests = EmptyBag
    /\ clock = 0
    /\ response = NoResponse
    /\ posted = << >>
    /\ users_collection = << >>

\* datetime.now() advances
Tick ==
    /\ clock + 1 < Len(Stamps)
    /\ clock' = clock + 1
    /\ UNCHANGED << patients_collection, requests, response, posted,
                    users_collection >>

\* FastAPI validates the body against VisitSearch before either handler
\* runs: a ValueError of the validator is answered 422
ValidationError(searches) ==
    \E op \in { "search", "visit" }, patient \in searches \cup SearchedSearches :
        /\ op = "visit" => patient \in searches
        /\ op = "search" => patient \in SearchedSearches
        /\ ParentNameRejected(patient)
        /\ response' = [op |-> op, status |-> 422, visits |-> << >>,
                        input |-> patient]
        /\ UNCHANGED << patients_collection, requests, clock, posted,
                        users_collection >>

\* get_patient with a body the validator accepts
GetPatient ==
    \E current_user \in Users, patient \in SearchedSearches :
        /\ ~ParentNameRejected(patient)
        /\ response' = [op |-> "search",
                        status |-> GetPatientStatus(patients_collection,
                                                    current_user, patient),
                        visits |-> GetPatientVisits(patients_collection,
                                                    current_user, patient),
                        input |-> NoSearch]
        /\ patients_collection' =
               GetPatientStore(patients_collection, current_user, patient)
        /\ UNCHANGED << requests, clock, posted, users_collection >>

(***************************************************************************)
(* add_visit: POST /patients/visit.                                        *)
(***************************************************************************)
\* the stamps set only where the body left the field out
StampedWhenAbsent(body, current_user, now) ==
    [body EXCEPT !.facility_name =
                     IF @ = None THEN current_user.facility_name ELSE @,
                 !.facility_type =
                     IF @ = None THEN current_user.facility_type ELSE @,
                 !.visit_date = IF @ = None THEN Strftime(now) ELSE @]

\* lines 189-191: the stamps of the visit
Stamped(body, current_user, now) ==
    [body EXCEPT !.facility_name = current_user.facility_name,
                 !.facility_type = current_user.facility_type,
                 !.visit_date = Strftime(now)]

\* the coroutines that await the store call pc
Awaiting(pc) == { r \in BagToSet(requests) : r.pc = pc }

\* the coroutine r issuing the store call it awaits once more
AwaitAgain(r, pc) == requests' = requests

\* the coroutine r goes on to await the store call pc
Await(r, pc) == requests' = (requests (-) SetToBag({r})) (+) SetToBag({[r EXCEPT !.pc = pc]})

\* add_visit returns 201 (line 265)
Return201(r, resolution) ==
    /\ response' = [op |-> "visit", status |-> 201, visits |-> << >>,
                    input |-> NoSearch]
    /\ posted' = Append(posted, [patient |-> r.patient,
                                 visit |-> r.visit_details,
                                 resolution |-> resolution,
                                 current_user |-> r.current_user])
    /\ requests' = requests (-) SetToBag({r})

\* lines 187-193: the handler starts and runs to its first store call
AddVisitStart(searches, bodies) ==
    \E current_user \in Users, patient \in searches, body \in bodies :
        /\ Len(posted) + BagCardinality(requests) < MaxPosts
        /\ ~ParentNameRejected(patient)
        /\ requests' = requests (+) SetToBag({
               [pc |-> IF patient.is_child THEN "find_parent" ELSE "find_adult",
                current_user |-> current_user,
                patient |-> patient,
                visit_details |-> Stamped(body, current_user, clock),
                child_name |-> None] })
        /\ UNCHANGED << patients_collection, clock, response, posted,
                        users_collection >>

\* lines 195-199: find_one for the parent
FindParent ==
    \E r \in Awaiting("find_parent") :
        /\ Await(r, IF FindOne(patients_collection, r.patient.id_number) = 0
                    THEN "insert_parent" ELSE "find_dependents")
        /\ UNCHANGED << patients_collection, clock, response, posted,
                        users_collection >>

\* insert_one of a new parent that holds the visit in its own ledger too
InsertParentWithVisit ==
    \E r \in Awaiting("insert_parent") :
        /\ patients_collection' = InsertOne(patients_collection,
               Patient(r.patient.id_number, r.patient.parent_name,
                       << Child(r.patient.name, << r.visit_details >>) >>,
                       << r.visit_details >>))
        /\ Return201(r, "NewParentNewChild")
        /\ UNCHANGED << clock, users_collection >>

\* lines 200-209: insert_one of a new parent with the child
InsertParent ==
    \E r \in Awaiting("insert_parent") :
        /\ patients_collection' = InsertOne(patients_collection,
               Patient(r.patient.id_number, r.patient.parent_name,
                       << Child(r.patient.name, << r.visit_details >>) >>, << >>))
        /\ Return201(r, "NewParentNewChild")
        /\ UNCHANGED << clock, users_collection >>

\* lines 212-230: find_one for the dependents, and the scan for the child
FindDependents ==
    \E r \in Awaiting("find_dependents") :
        /\ LET i == FindOne(patients_collection, r.patient.id_number)
               dependents == patients_collection[i].dependents
               j == FirstSameName(dependents, r.patient.name)
           IN  requests' = (requests (-) SetToBag({r})) (+) SetToBag({
                   IF Len(dependents) = 0
                   THEN [r EXCEPT !.pc = "push_first_child"]
                   ELSE IF j # 0
                        THEN [r EXCEPT !.pc = "push_child_visit",
                                       !.child_name = dependents[j].name]
                        ELSE [r EXCEPT !.pc = "push_new_child"] })
        /\ UNCHANGED << patients_collection, clock, response, posted,
                        users_collection >>

\* lines 217-224: update_one pushing the first child of the parent
PushFirstChild ==
    \E r \in Awaiting("push_first_child") :
        /\ patients_collection' = PushDependent(patients_collection,
               r.patient.id_number, Child(r.patient.name, << r.visit_details >>))
        /\ Return201(r, "NewChildForExistingParent")
        /\ UNCHANGED << clock, users_collection >>

\* lines 231-237: update_one pushing the visit to the child found
PushChildVisit ==
    \E r \in Awaiting("push_child_visit") :
        /\ patients_collection' = PushDependentVisit(patients_collection,
               r.patient.id_number, r.child_name, r.visit_details)
        /\ Return201(r, "ExistingChild")
        /\ UNCHANGED << clock, users_collection >>

\* lines 239-246: update_one pushing a new child after the others
PushNewChild ==
    \E r \in Awaiting("push_new_child") :
        /\ patients_collection' = PushDependent(patients_collection,
               r.patient.id_number, Child(r.patient.name, << r.visit_details >>))
        /\ Return201(r, "NewChildForExistingParent")
        /\ UNCHANGED << clock, users_collection >>

\* find_one for the adult with the name in the filter too
FindAdultByName ==
    \E r \in Awaiting("find_adult") :
        /\ Await(r, IF \E i \in 1..Len(patients_collection) :
                          /\ patients_collection[i].id_number = r.patient.id_number
                          /\ patients_collection[i].name = r.patient.name
                    THEN "push_adult_visit" ELSE "insert_adult")
        /\ UNCHANGED << patients_collection, clock, response, posted,
                        users_collection >>

\* lines 249-253: find_one for the adult
FindAdult ==
    \E r \in Awaiting("find_adult") :
        /\ Await(r, IF FindOne(patients_collection, r.patient.id_number) = 0
                    THEN "insert_adult" ELSE "push_adult_visit")
        /\ UNCHANGED << patients_collection, clock, response, posted,
                        users_collection >>

\* lines 254-258: insert_one of a new adult
InsertAdult ==
    \E r \in Awaiting("insert_adult") :
        /\ patients_collection' = InsertOne(patients_collection,
               Patient(r.patient.id_number, r.patient.name,
                       << >>, << r.visit_details >>))
        /\ Return201(r, "NewAdult")
        /\ UNCHANGED << clock, users_collection >>

\* lines 260-264: update_one pushing the visit to the adult
PushAdultVisit ==
    \E r \in Awaiting("push_adult_visit") :
        /\ patients_collection' = PushVisit(patients_collection,
               r.patient.id_number, r.visit_details)
        /\ Return201(r, "ExistingAdult")
        /\ UNCHANGED << clock, users_collection >>

\* the failing store call issued again by the coroutine, which goes on
RaiseRetried(r) ==
    /\ response' = [op |-> "visit", status |-> 500, visits |-> << >>,
                    input |-> NoSearch]
    /\ requests' = requests

\* an awaited store call raises: add_visit has no try/except around any of
\* them, so the exception leaves the handler and the request is answered 500
Raise(r) ==
    /\ response' = [op |-> "visit", status |-> 500, visits |-> << >>,
                    input |-> NoSearch]
    /\ requests' = requests (-) SetToBag({r})

\* the store call a coroutine awaits fails, with no effect on the collection
StoreError ==
    \E r \in BagToSet(requests) :
        /\ Raise(r)
        /\ UNCHANGED << patients_collection, clock, posted, users_collection >>

\* the store calls of the add_visit coroutines
AddVisitStep ==
    \/ FindParent
    \/ InsertParent
    \/ FindDependents
    \/ PushFirstChild
    \/ PushChildVisit
    \/ PushNewChild
    \/ FindAdult
    \/ InsertAdult
    \/ PushAdultVisit

\* overlapping add_visit requests: their store calls interleave
Next ==
    \/ AddVisitStart(OverlappingSearches, VisitBodies)
    \/ AddVisitStep

Spec == Init /\ [][Next]_vars

\* the store answers every call and the event loop resumes the coroutine
\* that awaits it
FairSpec ==
    /\ Spec
    /\ WF_vars(FindParent)
    /\ WF_vars(InsertParent)
    /\ WF_vars(FindDependents)
    /\ WF_vars(PushFirstChild)
    /\ WF_vars(PushChildVisit)
    /\ WF_vars(PushNewChild)
    /\ WF_vars(FindAdult)
    /\ WF_vars(InsertAdult)
    /\ WF_vars(PushAdultVisit)

\* overlapping add_visit requests for two id_numbers
NextFrame ==
    \/ AddVisitStart(FrameSearches, VisitBodies)
    \/ AddVisitStep

SpecFrame == Init /\ [][NextFrame]_vars

\* overlapping add_visit requests for one parent and its children, one of
\* them under two spellings of its name
NextRace ==
    \/ AddVisitStart(RaceSearches, VisitBodies)
    \/ AddVisitStep

SpecRace == Init /\ [][NextRace]_vars

\* overlapping add_visit requests over a store whose calls can fail
NextFail ==
    \/ AddVisitStart(ClockSearches, VisitBodies)
    \/ AddVisitStep
    \/ StoreError

SpecFail == Init /\ [][NextFail]_vars

\* add_visit requests one at a time: a request is admitted only when none
\* is in flight
NextSeq ==
    \/ AddVisitStart(SequentialSearches, VisitBodies) /\ requests = EmptyBag
    \/ AddVisitStep

SpecSeq == Init /\ [][NextSeq]_vars

\* add_visit requests one at a time, with visits of different content
NextLedger ==
    \/ AddVisitStart(LedgerSearches, LedgerBodies) /\ requests = EmptyBag
    \/ AddVisitStep

SpecLedger == Init /\ [][NextLedger]_vars

\* both routes and the validation in front of them, requests overlapping
NextApi ==
    \/ ValidationError(ApiSearches)
    \/ GetPatient
    \/ AddVisitStart(ApiSearches, VisitBodies)
    \/ AddVisitStep

SpecApi == Init /\ [][NextApi]_vars

\* overlapping add_visit requests while the clock advances
NextClock ==
    \/ Tick
    \/ AddVisitStart(ClockSearches, VisitBodies)
    \/ AddVisitStep

SpecClock == Init /\ [][NextClock]_vars

\* overlapping add_visit requests whose bodies all carry stamps of the
\* caller's, while the clock advances
NextStamp ==
    \/ Tick
    \/ AddVisitStart(ClockSearches, ForgedBodies)
    \/ AddVisitStep

SpecStamp == Init /\ [][NextStamp]_vars

(***************************************************************************)
(* register_user: POST /users/register.                                    *)
(***************************************************************************)
\* str.upper() on one character
UpperChar(c) ==
    IF \E i \in 1..Len(LowerCase) : LowerCase[i] = c
    THEN UpperCase[CHOOSE i \in 1..Len(LowerCase) : LowerCase[i] = c]
    ELSE c

\* a cased character
IsCased(c) ==
    \/ \E i \in 1..Len(LowerCase) : LowerCase[i] = c
    \/ \E i \in 1..Len(UpperCase) : UpperCase[i] = c

\* str.title(): a cased character is upper-cased when it follows an uncased
\* one or starts the string, and lower-cased otherwise
Title(cs) ==
    [i \in 1..Len(cs) |->
        IF i = 1 \/ ~IsCased(cs[i - 1]) THEN UpperChar(cs[i])
        ELSE LowerChar(cs[i])]

\* the facility names the registrations carry
FacilityNames ==
    { "facility a", "Facility A", "FACILITY B", "Facility C", "Facility D",
      "Amina" }

\* the facility names as texts
FacilityTexts == FacilityNames \cup { "Facility B" }

\* the string of the characters cs
Str(cs) == CHOOSE s \in FacilityTexts : Chars(s) = cs

\* UserRegistration.serialize_name: facility_name as model_dump gives it
SerializeName == [s \in FacilityNames |-> Str(Title(Chars(s)))]

\* the email addresses, as EmailStr validated them
Emails == { "a@example.com", "b@example.com", "c@example.com" }

\* the UserRegistration bodies
UserRegistrations ==
    [email : Emails, password : { "password" }, facility_name : FacilityNames,
     facility_type : { None }]

\* the documents of the facilities collection, which no route writes
facilities_collection ==
    << [facility_name |-> "Facility A", status |-> "Active",
        facility_type |-> "Hospital"],
       [facility_name |-> "Facility B", status |-> "Active",
        facility_type |-> "Clinic"],
       [facility_name |-> "Facility C", status |-> "Active",
        facility_type |-> "Dispensary"],
       [facility_name |-> "Facility D", status |-> "Revoked",
        facility_type |-> "Clinic"] >>

\* bcrypt.hashpw(password, salt).decode('utf-8')
Hashpw(password) == << "$2b$", password >>

\* find_one({field: value}): the position of the first matching document,
\* 0 for None
FindOneField(coll, field, value) ==
    IF \E i \in 1..Len(coll) : coll[i][field] = value
    THEN Min({ i \in 1..Len(coll) : coll[i][field] = value })
    ELSE 0

\* register_user without the lookup of the facility_name among the users
RegisterUserStatusEmailOnly(users, user) ==
    LET facility_name == SerializeName[user.facility_name]
        facility == FindOneField(facilities_collection, "facility_name",
                                 facility_name)
    IN  IF FindOneField(users, "email", user.email) # 0 THEN 400
        ELSE IF facility = 0 THEN 400
        ELSE IF facilities_collection[facility].status # "Active" THEN 400
        ELSE 201

\* lines 52-74: the status register_user answers with
RegisterUserStatus(users, user) ==
    LET facility_name == SerializeName[user.facility_name]
        facility == FindOneField(facilities_collection, "facility_name",
                                 facility_name)
    IN  IF FindOneField(users, "email", user.email) # 0 THEN 400
        ELSE IF FindOneField(users, "facility_name", facility_name) # 0 THEN 400
        ELSE IF facility = 0 THEN 400
        ELSE IF facilities_collection[facility].status # "Active" THEN 400
        ELSE 201

\* lines 52-74: the users collection after register_user
RegisterUserStore(users, user) ==
    LET facility_name == SerializeName[user.facility_name]
        facility == FindOneField(facilities_collection, "facility_name",
                                 facility_name)
    IN  IF RegisterUserStatus(users, user) # 201 THEN users
        ELSE Append(users,
                 [email |-> user.email,
                  password |-> Hashpw(user.password),
                  facility_name |-> facility_name,
                  facility_type |-> facilities_collection[facility].facility_type])

\* register_user, run from its first store call to its return or its
\* HTTPException with no other request in between
RegisterUser ==
    \E user \in UserRegistrations :
        /\ response' = [op |-> "register",
                        status |-> RegisterUserStatus(users_collection, user),
                        visits |-> << >>,
                        input |-> user]
        /\ users_collection' = RegisterUserStore(users_collection, user)
        /\ UNCHANGED << patients_collection, requests, clock, posted >>

\* register_user requests one at a time
NextUsers == RegisterUser

SpecUsers == Init /\ [][NextUsers]_vars

(***************************************************************************)
(* Properties.                                                             *)
(***************************************************************************)
\* the bodies either handler can be entered with
AcceptedSearches == { p \in VisitSearches : ~ParentNameRejected(p) }

\* the number of positions of seq that hold x
Occurrences(seq, x) == Cardinality({ k \in 1..Len(seq) : seq[k] = x })

\* p and q name the same adult, or the same child of the same parent
SamePerson(p, q) ==
    /\ p.id_number = q.id_number
    /\ p.is_child = q.is_child
    /\ p.is_child => Parts[p.name] = Parts[q.name]

IsPrefix(s, t) == Len(s) <= Len(t) /\ \A k \in 1..Len(s) : s[k] = t[k]

\* C1: whatever the store holds, a search by any facility with any accepted
\* body returns no visit whose facility_name is that facility's own
OwnVisitsNeverReturned ==
    \A u \in Users, p \in AcceptedSearches :
        LET visits == GetPatientVisits(patients_collection, u, p) IN
        \A k \in 1..Len(visits) : visits[k].facility_name # u.facility_name

\* a child whose ledger holds a visit of the searching facility and one of
\* another facility is searched under another spelling of its name
OwnVisitsNeverReturnedWitness ==
    \E u \in Users, p \in AcceptedSearches :
        /\ p.is_child
        /\ \E i \in 1..Len(patients_collection) :
             \E j \in 1..Len(patients_collection[i].dependents) :
                LET child == patients_collection[i].dependents[j] IN
                /\ patients_collection[i].id_number = p.id_number
                /\ child.name # p.name
                /\ Parts[child.name] = Parts[p.name]
                /\ \E k \in 1..Len(child.visits) :
                      child.visits[k].facility_name = u.facility_name
        /\ GetPatientVisits(patients_collection, u, p) # << >>

\* C2: every visit an add_visit that returned 201 recorded is returned to a
\* search for the same person by any other facility, as often as it was
\* posted
PostedVisitsReturned ==
    \A k \in 1..Len(posted), u \in Users :
        u.facility_name # posted[k].visit.facility_name =>
            Occurrences(GetPatientVisits(patients_collection, u,
                                         posted[k].patient), posted[k].visit)
            >= Cardinality({ m \in 1..Len(posted) :
                   /\ SamePerson(posted[m].patient, posted[k].patient)
                   /\ posted[m].visit = posted[k].visit })

\* the visits posted for the adult id_number, in the order of the posts
AdultVisitsPosted(id_number) ==
    LET entries == SelectSeq(posted, LAMBDA e :
                       ~e.patient.is_child /\ e.patient.id_number = id_number)
    IN  [k \in 1..Len(entries) |-> entries[k].visit]

\* C3: with posts one at a time, an adult search by a facility returns the
\* visits posted for that adult by the other facilities, all of them and no
\* others, in the order of the posts
AdultSearchReturnsPostedVisits ==
    \A u \in Users, p \in AcceptedSearches :
        ~p.is_child =>
            GetPatientVisits(patients_collection, u, p) =
                SelectSeq(AdultVisitsPosted(p.id_number),
                          LAMBDA v : v.facility_name # u.facility_name)

\* an adult has visits of both facilities, and the search returns two
\* visits of different content
AdultSearchReturnsPostedVisitsWitness ==
    \E u \in Users, p \in AcceptedSearches :
        LET visits == GetPatientVisits(patients_collection, u, p) IN
        /\ ~p.is_child
        /\ Len(visits) = 2
        /\ visits[1] # visits[2]
        /\ Len(AdultVisitsPosted(p.id_number)) = 3

\* C4: a search, whether it finds the patient or not, leaves every document
\* of the collection as it was
SearchLeavesStore ==
    [][(response' # response /\ response'.op = "search")
           => patients_collection' = patients_collection]_vars

\* a search has returned visits
SearchLeavesStoreWitness ==
    /\ response.op = "search"
    /\ response.status = 200
    /\ response.visits # << >>

\* C5: a search is answered 200 with no visits when no document has the
\* id_number, and a child search when the parent found has no dependents or
\* none whose name matches
UnmatchedSearchIsEmpty ==
    \A u \in Users, p \in AcceptedSearches :
        LET docs == { i \in 1..Len(patients_collection) :
                        patients_collection[i].id_number = p.id_number }
            parent == patients_collection[CHOOSE i \in docs :
                                              \A m \in docs : i <= m]
        IN  (\/ docs = {}
             \/ /\ p.is_child
                /\ \A j \in 1..Len(parent.dependents) :
                      Parts[parent.dependents[j].name] # Parts[p.name])
            => /\ GetPatientStatus(patients_collection, u, p) = 200
               /\ GetPatientVisits(patients_collection, u, p) = << >>

\* a parent has a dependent with a visit of another facility, and a child
\* of another name is searched
UnmatchedSearchIsEmptyWitness ==
    \E u \in Users, p \in AcceptedSearches, i \in 1..Len(patients_collection) :
        /\ p.is_child
        /\ patients_collection[i].id_number = p.id_number
        /\ patients_collection[i].dependents # << >>
        /\ \A j \in 1..Len(patients_collection[i].dependents) :
              LET child == patients_collection[i].dependents[j] IN
              /\ Parts[child.name] # Parts[p.name]
              /\ \E k \in 1..Len(child.visits) :
                    child.visits[k].facility_name # u.facility_name

\* a child body without a parent name
NullParent(p) == p.is_child /\ p.parent_name = None

\* C6: a body with is_child true and parent_name null enters neither
\* handler: no add_visit runs or has run with it, and the step that answers
\* it answers 422 and leaves the collection and the handlers as they were
NullParentRejected ==
    /\ [](/\ \A r \in BagToSet(requests) : ~NullParent(r.patient)
          /\ \A k \in 1..Len(posted) : ~NullParent(posted[k].patient)
          /\ \A p \in VisitSearches : NullParent(p) => p \notin AcceptedSearches
          /\ NullParent(response.input) => response.status = 422)
    /\ [][(response' # response /\ NullParent(response'.input))
             => /\ response'.status = 422
                /\ UNCHANGED << patients_collection, requests, posted >>]_vars

\* a post without a parent name was answered 422 while the collection held
\* documents
NullParentRejectedWitness ==
    /\ response.op = "visit"
    /\ response.status = 422
    /\ NullParent(response.input)
    /\ patients_collection # << >>

\* C7: a child body with an empty parent_name is refused like one without:
\* no add_visit returns for it and no document gets the empty name
EmptyParentRejected ==
    /\ \A k \in 1..Len(posted) :
          ~(posted[k].patient.is_child /\ posted[k].patient.parent_name = "")
    /\ \A i \in 1..Len(patients_collection) : patients_collection[i].name # ""

\* the documents and ledgers of coll are kept in order at the front of
\* those of next
AppendOnly(coll, next) ==
    /\ Len(coll) <= Len(next)
    /\ \A i \in 1..Len(coll) :
          /\ next[i].id_number = coll[i].id_number
          /\ IsPrefix(coll[i].visits, next[i].visits)
          /\ Len(coll[i].dependents) <= Len(next[i].dependents)
          /\ \A j \in 1..Len(coll[i].dependents) :
                /\ next[i].dependents[j].name = coll[i].dependents[j].name
                /\ IsPrefix(coll[i].dependents[j].visits,
                            next[i].dependents[j].visits)

\* C8: every step, of whatever interleaving, keeps each document, each
\* dependent and each visit where it was and only adds after them
LedgersAppendOnly ==
    [][AppendOnly(patients_collection, patients_collection')]_vars

\* a parent with two dependents, one of them with visits of two facilities
LedgersAppendOnlyWitness ==
    \E i \in 1..Len(patients_collection) :
        /\ Len(patients_collection[i].dependents) >= 2
        /\ \E j \in 1..Len(patients_collection[i].dependents) :
              LET visits == patients_collection[i].dependents[j].visits IN
              /\ Len(visits) >= 2
              /\ visits[1].facility_name # visits[2].facility_name

\* the posts returned for id_number, in the order they returned
PostsFor(id_number) ==
    SelectSeq(posted, LAMBDA e : e.patient.id_number = id_number)

\* the visits the document holds, in its own ledger and its dependents'
RECURSIVE VisitsOfDependents(_)
VisitsOfDependents(dependents) ==
    IF dependents = << >> THEN 0
    ELSE Len(Head(dependents).visits) + VisitsOfDependents(Tail(dependents))

VisitsOfDocument(doc) == Len(doc.visits) + VisitsOfDependents(doc.dependents)

\* C9: with posts one at a time an id_number has at most one document: the
\* first post for it resolves as new and names the document, every later
\* one resolves as existing and adds its visit to that document
OneDocumentPerIdNumber ==
    \A id \in IdNumbers :
        LET docs == { i \in 1..Len(patients_collection) :
                        patients_collection[i].id_number = id }
            posts == PostsFor(id)
        IN  /\ Cardinality(docs) <= 1
            /\ (docs = {}) = (posts = << >>)
            /\ \A i \in docs :
                  /\ patients_collection[i].name =
                        IF posts[1].patient.is_child
                        THEN posts[1].patient.parent_name
                        ELSE posts[1].patient.name
                  /\ VisitsOfDocument(patients_collection[i]) = Len(posts)
            /\ \A k \in 1..Len(posts) :
                  (k = 1) = (posts[k].resolution \in { "NewAdult", "NewParentNewChild" })

\* an adult posted under a name is posted again under another name
OneDocumentPerIdNumberWitness ==
    \E id \in IdNumbers :
        /\ Len(PostsFor(id)) >= 2
        /\ ~PostsFor(id)[1].patient.is_child
        /\ ~PostsFor(id)[2].patient.is_child
        /\ PostsFor(id)[1].patient.name # PostsFor(id)[2].patient.name

\* C10: nothing serialises the read and the write of overlapping posts:
\* every post that read no document inserts one of its own, so an
\* id_number has as many documents as posts that resolved as new
EveryNewPostInserts ==
    \A id \in IdNumbers :
        Cardinality({ i \in 1..Len(patients_collection) :
                        patients_collection[i].id_number = id })
        = Cardinality({ k \in 1..Len(posted) :
                          /\ posted[k].patient.id_number = id
                          /\ posted[k].resolution \in
                                { "NewAdult", "NewParentNewChild" } })

\* two adult posts for an id_number never seen have left two documents
EveryNewPostInsertsWitness ==
    \E i, j \in 1..Len(patients_collection) :
        /\ i < j
        /\ patients_collection[i].id_number = patients_collection[j].id_number
        /\ patients_collection[i].dependents = << >>
        /\ patients_collection[j].dependents = << >>
        /\ Len(patients_collection[i].visits) = 1
        /\ Len(patients_collection[j].visits) = 1

\* the dependents of all the documents of id_number
DependentsOf(id_number) ==
    UNION { { << i, j >> : j \in 1..Len(patients_collection[i].dependents) } :
              i \in MatchingIdNumber(patients_collection, id_number) }

\* C11: nothing serialises the scan of the dependents and the push of
\* overlapping child posts: every child post that found no dependent of its
\* name adds a Child of its own, so an id_number has as many dependents as
\* child posts that resolved as new
EveryUnmatchedChildPostPushes ==
    \A id \in IdNumbers :
        Cardinality(DependentsOf(id))
        = Cardinality({ k \in 1..Len(posted) :
                          /\ posted[k].patient.id_number = id
                          /\ posted[k].resolution \in
                                { "NewParentNewChild",
                                  "NewChildForExistingParent" } })

\* two child posts for a parent already stored have left it two dependents
\* of matching names
EveryUnmatchedChildPostPushesWitness ==
    /\ Cardinality({ k \in 1..Len(posted) :
                       posted[k].resolution = "NewChildForExistingParent" }) >= 2
    /\ \E i \in 1..Len(patients_collection) :
          \E j, k \in 1..Len(patients_collection[i].dependents) :
             /\ j < k
             /\ Parts[patients_collection[i].dependents[j].name]
                  = Parts[patients_collection[i].dependents[k].name]

\* the visits of every ledger of the collection
StoredVisits ==
    UNION { { patients_collection[i].visits[k] :
                k \in 1..Len(patients_collection[i].visits) }
            \cup UNION { { patients_collection[i].dependents[j].visits[k] :
                             k \in 1..Len(patients_collection[i].dependents[j].visits) } :
                         j \in 1..Len(patients_collection[i].dependents) } :
            i \in 1..Len(patients_collection) }

\* C12: every stored visit is the visit of a post that returned, stamped
\* with the facility_name and facility_type of the user who posted it and
\* with a reading of the server's clock; what the body carried in the three
\* stamp fields has no effect on what is stored
StampsFromServer ==
    /\ StoredVisits = { posted[k].visit : k \in 1..Len(posted) }
    /\ \A k \in 1..Len(posted) :
          /\ posted[k].visit.facility_name = posted[k].current_user.facility_name
          /\ posted[k].visit.facility_type = posted[k].current_user.facility_type
          /\ \E t \in 0..clock : posted[k].visit.visit_date = Strftime(t)
    /\ \A r \in BagToSet(requests) :
          /\ r.visit_details.facility_name = r.current_user.facility_name
          /\ r.visit_details.facility_type = r.current_user.facility_type
    /\ \A b1, b2 \in VisitBodies \cup ForgedBodies, u \in Users,
          t \in 0..(Len(Stamps) - 1) :
          b1.visit_clinical_notes = b2.visit_clinical_notes
              => Stamped(b1, u, t) = Stamped(b2, u, t)

\* both facilities have posted bodies carrying stamps of their own, one of
\* them after the clock advanced, and the visits are stored
StampsFromServerWitness ==
    /\ \E v \in StoredVisits :
          v.facility_name = "Facility A" /\ v.visit_date = Strftime(1)
    /\ \E v \in StoredVisits :
          v.facility_name = "Facility B" /\ v.visit_date = Strftime(0)

\* C13: every add_visit entered with an accepted body returns 201, whatever
\* it resolves to and however the requests interleave: a coroutine leaves
\* only by returning 201, and none stays in flight for ever
PostsTerminate ==
    /\ [][BagCardinality(requests') < BagCardinality(requests)
             => /\ BagCardinality(requests') = BagCardinality(requests) - 1
                /\ Len(posted') = Len(posted) + 1
                /\ response'.op = "visit"
                /\ response'.status = 201]_vars
    /\ (requests # EmptyBag) ~> (requests = EmptyBag)

\* three posts that overlapped have all returned, one of them for a child
\* already stored
PostsTerminateWitness ==
    /\ requests = EmptyBag
    /\ Len(posted) >= 3
    /\ \E k \in 1..Len(posted) : posted[k].resolution = "ExistingChild"
    /\ \E k \in 1..Len(posted) : posted[k].resolution = "NewChildForExistingParent"

\* the number of visits in all the ledgers of the collection
RECURSIVE VisitsOfCollection(_)
VisitsOfCollection(coll) ==
    IF coll = << >> THEN 0
    ELSE VisitsOfDocument(Head(coll)) + VisitsOfCollection(Tail(coll))

\* C14: when a store call of an add_visit fails, the request is answered
\* 500 and is over (it issues no call again, the failed one or another), and
\* the collection is what it was before the call: no request that failed
\* has left a visit behind
FailedCallLeavesStore ==
    /\ [][(BagCardinality(requests') < BagCardinality(requests)
             /\ posted' = posted)
          => /\ response'.status = 500
             /\ patients_collection' = patients_collection
             /\ BagCardinality(requests') = BagCardinality(requests) - 1]_vars
    /\ [][(response' # response /\ response'.status = 500)
          => /\ patients_collection' = patients_collection
             /\ posted' = posted
             /\ BagCardinality(requests') = BagCardinality(requests) - 1]_vars
    /\ [](VisitsOfCollection(patients_collection) = Len(posted))

\* a store call failed while the collection held documents and another
\* request was in flight
FailedCallLeavesStoreWitness ==
    /\ response.status = 500
    /\ patients_collection # << >>
    /\ \E r \in BagToSet(requests) :
          r.pc \in { "insert_parent", "push_child_visit", "push_new_child",
                     "push_adult_visit", "insert_adult", "push_first_child" }

\* the registration is for an email or a facility_name a stored user has
Taken(users, user) ==
    \E i \in 1..Len(users) :
        \/ users[i].email = user.email
        \/ users[i].facility_name = user.facility_name
        \/ users[i].facility_name = SerializeName[user.facility_name]

\* C15: with registrations one at a time no two stored users have the same
\* email or the same facility_name, and a registration for an email or a
\* facility_name already stored is answered with an error and stores nothing
UsersUnique ==
    /\ [](\A i, j \in 1..Len(users_collection) :
             i # j => /\ users_collection[i].email # users_collection[j].email
                      /\ users_collection[i].facility_name
                            # users_collection[j].facility_name)
    /\ [][(response'.op = "register"
             /\ (response' # response \/ users_collection' # users_collection)
             /\ Taken(users_collection, response'.input))
          => /\ response'.status = 400
             /\ users_collection' = users_collection]_vars

\* a facility registered under one spelling of its name was refused under
\* another spelling and another email, with two users stored
UsersUniqueWitness ==
    /\ Len(users_collection) >= 2
    /\ response.op = "register"
    /\ response.status = 400
    /\ \A i \in 1..Len(users_collection) :
          users_collection[i].email # response.input.email
    /\ \E i \in 1..Len(users_collection) :
          /\ users_collection[i].facility_name # response.input.facility_name
          /\ users_collection[i].facility_name
                = SerializeName[response.input.facility_name]

\* C16: an add_visit writes once, as its last store call, and the write adds
\* one visit: a step that changes the collection adds one visit and is the
\* return of one request, a step that returns changes the collection, and in
\* every state the ledgers hold as many visits as requests have written
OneWritePerPost ==
    /\ [](VisitsOfCollection(patients_collection) = Len(posted))
    /\ [][patients_collection' # patients_collection
          => /\ VisitsOfCollection(patients_collection')
                   = VisitsOfCollection(patients_collection) + 1
             /\ Len(posted') = Len(posted) + 1
             /\ BagCardinality(requests') = BagCardinality(requests) - 1]_vars
    /\ [][Len(posted') # Len(posted)
          => /\ patients_collection' # patients_collection
             /\ Len(posted') = Len(posted) + 1]_vars
    /\ [][BagCardinality(requests') >= BagCardinality(requests)
          => patients_collection' = patients_collection]_vars

\* posts that overlapped have pushed a visit to an adult and a child to a
\* parent, leaving one document with visits of its own and dependents
OneWritePerPostWitness ==
    /\ Len(posted) >= 3
    /\ \E k \in 1..Len(posted) : posted[k].resolution = "ExistingAdult"
    /\ \E k \in 1..Len(posted) : posted[k].resolution = "NewChildForExistingParent"
    /\ \E i \in 1..Len(patients_collection) :
          /\ patients_collection[i].visits # << >>
          /\ patients_collection[i].dependents # << >>

\* names in every relation two names can have: other order, other case,
\* more whitespace, a token repeated, a token missing, other tokens, none
MatchedNames == Names \cup { "Amina amina", "Mary Doe", "" }

\* NameParts of each of them, computed once
MatchedParts == [s \in MatchedNames |-> NameParts(s)]

\* the lower-cased whitespace-separated tokens of each name, written out
Tokens ==
    [s \in MatchedNames |->
        CASE s = "Amina Wanjiru" -> { << "a","m","i","n","a" >>,
                                      << "w","a","n","j","i","r","u" >> } []
             s = "wanjiru  AMINA" -> { << "w","a","n","j","i","r","u" >>,
                                       << "a","m","i","n","a" >> } []
             s = "Amina" -> { << "a","m","i","n","a" >> } []
             s = "Amina amina" -> { << "a","m","i","n","a" >> } []
             s = "Mary Doe" -> { << "m","a","r","y" >>, << "d","o","e" >> } []
             s = "" -> { }]

\* C17: two names match exactly when their sets of lower-cased tokens are
\* equal, whatever the order, the case and the repetitions; the relation is
\* an equivalence; and add_visit resolves a child of a stored parent to the
\* dependent that get_patient reads for the same name
NameMatcherIsTokenSetEquality ==
    /\ \A a \in MatchedNames : MatchedParts[a] = Tokens[a]
    /\ \A a, b \in Names : SameName(a, b) <=> Tokens[a] = Tokens[b]
    /\ SameName("Amina Wanjiru", "wanjiru  AMINA")
    /\ ~SameName("Amina Wanjiru", "Amina")
    /\ MatchedParts["Amina amina"] = MatchedParts["Amina"]
    /\ MatchedParts["Mary Doe"] # MatchedParts["Amina Wanjiru"]
    /\ \A a, b, c \in MatchedNames :
          /\ MatchedParts[a] = MatchedParts[a]
          /\ MatchedParts[a] = MatchedParts[b] => MatchedParts[b] = MatchedParts[a]
          /\ (MatchedParts[a] = MatchedParts[b] /\ MatchedParts[b] = MatchedParts[c])
                => MatchedParts[a] = MatchedParts[c]
    /\ \A i \in 1..Len(patients_collection), n \in Names :
          LET dependents == patients_collection[i].dependents
              same == { j \in 1..Len(dependents) :
                          Tokens[dependents[j].name] = Tokens[n] }
          IN  FirstSameName(dependents, n) =
                  IF same = {} THEN 0 ELSE Min(same)
    /\ \A r \in Awaiting("push_child_visit") :
          LET dependents == patients_collection[
                  FindOne(patients_collection, r.patient.id_number)].dependents
          IN  /\ Tokens[r.child_name] = Tokens[r.patient.name]
              /\ \E j \in 1..Len(dependents) : dependents[j].name = r.child_name

\* a child stored under one spelling of its name was posted again under
\* another order and case, and the post went to the stored child
NameMatcherIsTokenSetEqualityWitness ==
    \E k \in 1..Len(posted), i \in 1..Len(patients_collection) :
        /\ posted[k].resolution = "ExistingChild"
        /\ patients_collection[i].id_number = posted[k].patient.id_number
        /\ Len(patients_collection[i].dependents) = 1
        /\ patients_collection[i].dependents[1].name # posted[k].patient.name
        /\ posted[k].visit \in
              { patients_collection[i].dependents[1].visits[m] :
                  m \in 1..Len(patients_collection[i].dependents[1].visits) }

\* the post that returned in the step, when one did
Returned == posted'[Len(posted')]

\* C18: a child post for a stored parent appends its visit to the first
\* dependent whose name matches, leaving the dependents as many, and when
\* none matches (none at all included) appends one Child of the incoming
\* name with that visit after the others; so with posts one at a time no
\* parent has two dependents of matching names
ChildPostScansInOrder ==
    /\ [][(Len(posted') = Len(posted) + 1 /\ Returned.patient.is_child
             /\ \E i \in 1..Len(patients_collection) :
                   patients_collection[i].id_number = Returned.patient.id_number)
          => LET i == CHOOSE m \in 1..Len(patients_collection) :
                        patients_collection[m].id_number
                            = Returned.patient.id_number
                 dependents == patients_collection[i].dependents
                 same == { j \in 1..Len(dependents) :
                             Parts[dependents[j].name]
                                 = Parts[Returned.patient.name] }
             IN  IF same # {}
                 THEN LET j == CHOOSE m \in same : \A n \in same : m <= n IN
                      /\ patients_collection' =
                            [patients_collection EXCEPT
                                ![i].dependents[j].visits =
                                    Append(@, Returned.visit)]
                      /\ Len(patients_collection'[i].dependents)
                            = Len(dependents)
                 ELSE patients_collection' =
                          [patients_collection EXCEPT
                              ![i].dependents =
                                  Append(@, [name |-> Returned.patient.name,
                                             visits |-> << Returned.visit >>])]
         ]_vars
    /\ [](\A i \in 1..Len(patients_collection) :
             \A j, k \in 1..Len(patients_collection[i].dependents) :
                j # k => Parts[patients_collection[i].dependents[j].name]
                           # Parts[patients_collection[i].dependents[k].name])

\* a parent stored with one child got a second child of another name, and
\* then a visit for the first child under another spelling of its name
ChildPostScansInOrderWitness ==
    /\ Len(posted) = 3
    /\ posted[2].resolution = "NewChildForExistingParent"
    /\ posted[3].resolution = "ExistingChild"
    /\ \E i \in 1..Len(patients_collection) :
          /\ Len(patients_collection[i].dependents) = 2
          /\ Len(patients_collection[i].dependents[1].visits) = 2
          /\ patients_collection[i].dependents[1].name # posted[3].patient.name

\* C19: a child post for an id_number without a document inserts one
\* document named after parent_name, with no visits of its own and the
\* child with the visit as its only dependent; an adult search for the
\* id_number then returns nothing, and an adult post for it appends to the
\* visits of that document
ChildPostCreatesParent ==
    /\ [][(Len(posted') = Len(posted) + 1 /\ Returned.patient.is_child
             /\ \A i \in 1..Len(patients_collection) :
                   patients_collection[i].id_number # Returned.patient.id_number)
          => /\ patients_collection' =
                   Append(patients_collection,
                          [id_number |-> Returned.patient.id_number,
                           name |-> Returned.patient.parent_name,
                           dependents |->
                               << [name |-> Returned.patient.name,
                                   visits |-> << Returned.visit >>] >>,
                           visits |-> << >>])
             /\ \A u \in Users, p \in AcceptedSearches :
                   (~p.is_child /\ p.id_number = Returned.patient.id_number)
                       => /\ GetPatientStatus(patients_collection', u, p) = 200
                          /\ GetPatientVisits(patients_collection', u, p) = << >>
         ]_vars
    /\ [][(Len(posted') = Len(posted) + 1 /\ ~Returned.patient.is_child
             /\ \E i \in 1..Len(patients_collection) :
                   patients_collection[i].id_number = Returned.patient.id_number)
          => LET i == CHOOSE m \in 1..Len(patients_collection) :
                        patients_collection[m].id_number
                            = Returned.patient.id_number
             IN  patients_collection' =
                     [patients_collection EXCEPT
                         ![i].visits = Append(@, Returned.visit)]]_vars

\* a child post created the parent and an adult post for the id_number
\* followed: one document, with the child and with the adult's visit
ChildPostCreatesParentWitness ==
    /\ Len(posted) = 2
    /\ posted[1].resolution = "NewParentNewChild"
    /\ posted[2].resolution = "ExistingAdult"
    /\ posted[1].patient.id_number = posted[2].patient.id_number
    /\ Len(patients_collection) = 1
    /\ patients_collection[1].name = posted[1].patient.parent_name
    /\ patients_collection[1].name # posted[2].patient.name
    /\ patients_collection[1].visits = << posted[2].visit >>
    /\ Len(patients_collection[1].dependents) = 1

\* the dependents stored before the step that the step changed
ChangedDependents ==
    UNION { { << i, j >> : j \in { m \in 1..Len(patients_collection[i].dependents) :
                                     patients_collection'[i].dependents[m]
                                         # patients_collection[i].dependents[m] } } :
            i \in 1..Len(patients_collection) }

\* C20: a child post leaves the parent's own visits and the visits of every
\* dependent but the one of its name as they were, an adult post leaves the
\* dependents as they were, and no post touches or creates a document of
\* another id_number
LedgersSeparate ==
    [][Len(posted') = Len(posted) + 1
       => /\ Len(patients_collection') >= Len(patients_collection)
          /\ \A i \in 1..Len(patients_collection) :
                /\ patients_collection[i].id_number # Returned.patient.id_number
                      => patients_collection'[i] = patients_collection[i]
                /\ patients_collection'[i].id_number
                      = patients_collection[i].id_number
                /\ patients_collection'[i].name = patients_collection[i].name
                /\ Len(patients_collection'[i].dependents)
                      >= Len(patients_collection[i].dependents)
                /\ Returned.patient.is_child
                      => patients_collection'[i].visits
                            = patients_collection[i].visits
                /\ ~Returned.patient.is_child
                      => patients_collection'[i].dependents
                            = patients_collection[i].dependents
          /\ \A i \in (Len(patients_collection) + 1)..Len(patients_collection') :
                patients_collection'[i].id_number = Returned.patient.id_number
          /\ Cardinality(ChangedDependents) <= 1
          /\ \A d \in ChangedDependents :
                /\ Parts[patients_collection[d[1]].dependents[d[2]].name]
                      = Parts[Returned.patient.name]
                /\ patients_collection'[d[1]].dependents[d[2]].name
                      = patients_collection[d[1]].dependents[d[2]].name
      ]_vars

\* documents of two id_numbers are stored, one of them with visits of its
\* own and a dependent, after a child post and an adult post for it
LedgersSeparateWitness ==
    \E i, j \in 1..Len(patients_collection) :
        /\ patients_collection[i].id_number # patients_collection[j].id_number
        /\ patients_collection[i].visits # << >>
        /\ patients_collection[i].dependents # << >>

\* a visit of neither facility, to see where a write puts it
ProbeVisit ==
    [facility_name |-> "Facility C", facility_type |-> "Dispensary",
     visit_date |-> Strftime(0), visit_clinical_notes |-> "probe"]

\* the child bodies the validator accepts
ChildSearches == { p \in AcceptedSearches : p.is_child }

\* the write of a child post that matched the dependent of name child_name
\* goes to the dependent a search for name under id_number reads
SameDependent(id_number, name, child_name) ==
    LET i == CHOOSE m \in 1..Len(patients_collection) :
                 /\ patients_collection[m].id_number = id_number
                 /\ \A n \in 1..(m - 1) :
                       patients_collection[n].id_number # id_number
        dependents == patients_collection[i].dependents
        same == { m \in 1..Len(dependents) :
                    Parts[dependents[m].name] = Parts[name] }
        j == CHOOSE m \in same : \A n \in same : m <= n
        next == PushDependentVisit(patients_collection, id_number,
                                   child_name, ProbeVisit)
    IN  /\ same # {}
        /\ next = [patients_collection EXCEPT
                      ![i].dependents[j].visits = Append(@, ProbeVisit)]
        /\ \A u \in Users :
              GetPatientVisits(next, u, VisitSearch(id_number, name, TRUE, ""))
                  = Append(GetPatientVisits(patients_collection, u,
                               VisitSearch(id_number, name, TRUE, "")),
                           ProbeVisit)

\* C21: in every state, duplicates left by races included, the dependent a
\* child post appends to (the first of the exact stored name, in the first
\* document of the id_number that has one) is the dependent a search for
\* the same key reads; and a post appends to no dependent exactly when the
\* search finds none
ReadAndWriteAgree ==
    /\ \A p \in ChildSearches :
          LET i == FindOne(patients_collection, p.id_number)
              j == IF i = 0 THEN 0
                   ELSE FirstSameName(patients_collection[i].dependents, p.name)
          IN  IF j = 0
              THEN \A u \in Users :
                      GetPatientVisits(patients_collection, u, p) = << >>
              ELSE SameDependent(p.id_number, p.name,
                                 patients_collection[i].dependents[j].name)
    /\ \A r \in Awaiting("push_child_visit") :
          SameDependent(r.patient.id_number, r.patient.name, r.child_name)
    /\ \A r \in Awaiting("push_new_child") \cup Awaiting("push_first_child")
                   \cup Awaiting("find_dependents") :
          FindOne(patients_collection, r.patient.id_number) # 0

\* a race has left a parent two dependents of the same name and no other
\* dependent
ReadAndWriteAgreeWitness ==
    \E i \in 1..Len(patients_collection) :
        LET dependents == patients_collection[i].dependents IN
        /\ Len(dependents) >= 2
        /\ \E j, k \in 1..Len(dependents) :
              /\ j < k
              /\ dependents[j].name = dependents[k].name
        /\ \A j, k \in 1..Len(dependents) :
              Parts[dependents[j].name] = Parts[dependents[k].name]

\* the adult bodies the validator accepts
AdultSearches == { p \in AcceptedSearches : ~p.is_child }

\* C22: an adult is resolved by id_number alone: a facility's adult search
\* returns the same visits whatever name and parent_name the body carries,
\* and an adult post for an id_number stored under another name appends its
\* visit to the visits of that document, which keeps its name, and creates
\* no document
AdultResolvedByIdNumber ==
    /\ [](\A u \in Users, p \in AdultSearches :
             GetPatientVisits(patients_collection, u, p)
                 = GetPatientVisits(patients_collection, u,
                       VisitSearch(p.id_number, "Amina", FALSE, None)))
    /\ [][(Len(posted') = Len(posted) + 1 /\ ~Returned.patient.is_child
             /\ \E i \in 1..Len(patients_collection) :
                   /\ patients_collection[i].id_number
                         = Returned.patient.id_number
                   /\ patients_collection[i].name # Returned.patient.name)
          => /\ Returned.resolution = "ExistingAdult"
             /\ Len(patients_collection') = Len(patients_collection)
             /\ \A i \in 1..Len(patients_collection) :
                   /\ patients_collection'[i].name = patients_collection[i].name
                   /\ patients_collection'[i].dependents
                         = patients_collection[i].dependents
                   /\ patients_collection'[i].visits =
                         IF patients_collection[i].id_number
                               = Returned.patient.id_number
                         THEN Append(patients_collection[i].visits,
                                     Returned.visit)
                         ELSE patients_collection[i].visits]_vars

\* an adult stored under one name by one facility was posted under another
\* name by the other facility, and the one document holds both visits under
\* the first name
AdultResolvedByIdNumberWitness ==
    \E i \in 1..Len(patients_collection), k \in 1..Len(posted) :
        /\ k > 1
        /\ posted[k].resolution = "ExistingAdult"
        /\ posted[k].patient.id_number = patients_collection[i].id_number
        /\ posted[k].patient.name # patients_collection[i].name
        /\ posted[k].visit.facility_name # posted[1].visit.facility_name
        /\ patients_collection[i].visits = << posted[1].visit, posted[k].visit >>

\* the clock reading a stamp was formatted from
ClockOf(visit_date) == CHOOSE t \in 0..(Len(Stamps) - 1) : Strftime(t) = visit_date

\* the visit_date stamps of the ledger never go back in time
Chronological(visits) ==
    \A k, m \in 1..Len(visits) :
        k < m => ClockOf(visits[k].visit_date) <= ClockOf(visits[m].visit_date)

\* C23: in every state, however the posts interleave, every ledger, of an
\* adult or of a dependent, is in the order of its visit_date stamps
LedgersChronological ==
    \A i \in 1..Len(patients_collection) :
        /\ Chronological(patients_collection[i].visits)
        /\ \A j \in 1..Len(patients_collection[i].dependents) :
              Chronological(patients_collection[i].dependents[j].visits)

=============================================================================
